---- MODULE Spec2Model ----
(***************************************************************************)
(* HexaImageConverter (src/hexaimage.js): conversion of an orthogonal      *)
(* RGBA pixel grid into a staggered-row ("hexagonal") grid.                *)
(*                                                                         *)
(* Arithmetic.  The code computes in IEEE doubles.  The sampling weights   *)
(* 0.5 and 0.5/8 are dyadic, so the accumulators are kept exactly, in      *)
(* sixteenths.  Math.floor(W*0.85), Math.floor(H*0.9) and the Math.round   *)
(* of the sampling centre agree with exact rational arithmetic for every   *)
(* W < 34 and H < 49 (the first sizes where a double product falls just    *)
(* below an exact .5); the sizes of this model stay below those.           *)
(***************************************************************************)
EXTENDS Integers, Sequences, FiniteSets

VARIABLES
    originalImage,   \* this.originalImage: Null or [width, height, data]
    hexagonalImage,  \* this.hexagonalImage: Null or [width, height, data]
    pc,              \* position of startProcessing / convertToHexagonal
    originalWidth,   \* convertToHexagonal: const originalWidth
    originalHeight,  \* convertToHexagonal: const originalHeight
    pixels,          \* convertToHexagonal: imageData.data (source buffer)
    hexWidth,        \* convertToHexagonal: const hexWidth
    hexHeight,       \* convertToHexagonal: const hexHeight
    hexPixels,       \* convertToHexagonal: hexImageData.data (target buffer)
    hexX,            \* inner loop counter
    hexY,            \* outer loop counter
    todo,            \* output pixels not yet processed (reordered loop only)
    writeLog,        \* index -> number of stores made to it in hexPixels
    lastSample,      \* centre and taps of the latest calculateHexagonalPixel
    alerted,         \* the catch block of startProcessing has run
    tasks,           \* the startProcessing calls made so far, with their locals
    view,            \* zoom and pan fields of the two canvases
    uiEvents         \* number of reset, zoom and pan events handled

vars == <<originalImage, hexagonalImage, pc, originalWidth, originalHeight,
          pixels, hexWidth, hexHeight, hexPixels, hexX, hexY, todo,
          writeLog, lastSample, alerted, tasks, view, uiEvents>>

\* the state of the event-driven application around the conversions
uiVars == <<tasks, view, uiEvents>>

\* the locals of the single conversion followed pixel by pixel
runVars == <<pc, originalWidth, originalHeight, pixels, hexWidth, hexHeight,
             hexPixels, hexX, hexY, todo, writeLog, lastSample>>

\* ------------------------------------------------------------------ bounds
MaxW == 5
MaxH == 12
MaxAnyW == 3
MaxAnyH == 3

\* ------------------------------------------------------------------ inputs
Null == [null |-> TRUE]

Colors ==
    { <<255, 0, 0, 255>>, <<0, 4, 2, 0>>, <<17, 128, 254, 100>> }

Patterns == { <<0, 0>>, <<1, 0>>, <<0, 1>>, <<1, 1>> }

\* A decoded image: colour colA where (a*x + b*y) is even, colB elsewhere.
SourceData(w, h, colA, colB, pat) ==
    [i \in 0..(w * h * 4 - 1) |->
        LET p == i \div 4
            x == p % w
            y == p \div w
            c == IF (pat[1] * x + pat[2] * y) % 2 = 0 THEN colA ELSE colB
        IN  c[(i % 4) + 1]]

SourceImage(w, h, colA, colB, pat) ==
    [width |-> w, height |-> h, data |-> SourceData(w, h, colA, colB, pat)]

\* --------------------------------------------------------------- helpers
Min(a, b) == IF a < b THEN a ELSE b
Max(a, b) == IF a > b THEN a ELSE b

\* Math.floor(n / d) for n >= 0, d > 0
FloorDiv(n, d) == n \div d

\* Math.round(n / d) for n >= 0, d > 0: nearest integer, halves upwards
RoundDiv(n, d) == (2 * n + d) \div (2 * d)

\* variant: the width rounded to nearest instead of floored
HexWidthRounded(w) == RoundDiv(w * 85, 100)

\* Math.floor(originalWidth * 0.85)
HexWidthOf(w) == FloorDiv(w * 85, 100)

\* Math.floor(originalHeight * 0.9)
HexHeightOf(h) == FloorDiv(h * 9, 10)

\* tempCtx.createImageData(w, h): a zeroed buffer of w*h*4 bytes
CreateImageData(w, h) == [i \in 0..(w * h * 4 - 1) |-> 0]

\* variant: an empty buffer is returned for a zero dimension
CreateImageDataNeverThrows(w, h) == FALSE

\* createImageData throws IndexSizeError when a dimension is zero
CreateImageDataThrows(w, h) == w = 0 \/ h = 0

\* a typed-array read: undefined outside the buffer
InBuffer(buf, i) == i \in DOMAIN buf

\* a Uint8ClampedArray store: ignored outside the buffer
StoreByte(buf, i, v) ==
    IF InBuffer(buf, i) THEN [buf EXCEPT ![i] = Max(0, Min(255, v))] ELSE buf

\* ------------------------------------------------- calculateHexagonalPixel
\* variant: odd rows shifted by a whole cell
HexOffsetWholeCell(hy) == 2 * (hy % 2)

\* twice hexOffset = (hexY % 2) * 0.5
HexOffset2(hy) == hy % 2

\* Math.round((hexX + hexOffset) * scaleX), scaleX = originalWidth / hexWidth
CenterX(hx, hy, ow, hw) == RoundDiv((2 * hx + HexOffset2(hy)) * ow, 2 * hw)

\* Math.round(hexY * scaleY), scaleY = originalHeight / hexHeight
CenterY(hy, oh, hh) == RoundDiv(hy * oh, hh)

\* variant: the lower clamp forgotten
SampleXNoLowerClamp(cx, dx, ow) == Min(ow - 1, cx + dx)

\* Math.max(0, Math.min(originalWidth - 1, centerX + dx))
SampleX(cx, dx, ow) == Max(0, Min(ow - 1, cx + dx))

\* Math.max(0, Math.min(originalHeight - 1, centerY + dy))
SampleY(cy, dy, oh) == Max(0, Min(oh - 1, cy + dy))

\* variant: a stride of three bytes per source pixel
PixelIndexStride3(sx, sy, ow) == (sy * ow + sx) * 3

\* variant: row and column exchanged
PixelIndexTransposed(sx, sy, ow) == (sx * ow + sy) * 4

\* (sampleY * originalWidth + sampleX) * 4
PixelIndex(sx, sy, ow) == (sy * ow + sx) * 4

\* centerWeight = 0.5 and outerWeight = 0.5 / 8, in sixteenths
Weight16(dx, dy) == IF dx = 0 /\ dy = 0 THEN 8 ELSE 1

\* the nine taps in loop order: dy outermost, dx innermost, each -1..1
Taps(hx, hy, ow, oh, hw, hh) ==
    LET cx == CenterX(hx, hy, ow, hw)
        cy == CenterY(hy, oh, hh)
    IN  [k \in 1..9 |->
            LET dy == ((k - 1) \div 3) - 1
                dx == ((k - 1) % 3) - 1
                sx == SampleX(cx, dx, ow)
                sy == SampleY(cy, dy, oh)
            IN  [dx |-> dx, dy |-> dy, sampleX |-> sx, sampleY |-> sy,
                 pixelIndex |-> PixelIndex(sx, sy, ow),
                 weight |-> Weight16(dx, dy)]]

\* variant: every product is rounded before it is added
RECURSIVE AccumulateRounded(_, _, _, _)
AccumulateRounded(px, taps, ch, k) ==
    IF k = 0 THEN 0
    ELSE AccumulateRounded(px, taps, ch, k - 1)
            + 16 * RoundDiv(px[taps[k].pixelIndex + ch] * taps[k].weight, 16)

\* total += channel * weight over the first k taps (sixteenths);
\* ch = 0, 1, 2 selects r, g, b
RECURSIVE Accumulate(_, _, _, _)
Accumulate(px, taps, ch, k) ==
    IF k = 0 THEN 0
    ELSE Accumulate(px, taps, ch, k - 1)
            + px[taps[k].pixelIndex + ch] * taps[k].weight

\* totalWeight += weight over the first k taps (sixteenths)
RECURSIVE TotalWeight(_, _)
TotalWeight(taps, k) ==
    IF k = 0 THEN 0 ELSE TotalWeight(taps, k - 1) + taps[k].weight

\* if (totalWeight > 0) total = Math.round(total / totalWeight)
Normalize(total, totalWeight) ==
    IF totalWeight > 0 THEN RoundDiv(total, totalWeight)
    ELSE RoundDiv(total, 16)

\* a read outside the source buffer yields undefined, which turns the
\* channel's accumulator, its rounding and its clamp into NaN
ChannelIsNaN(px, taps, ch) ==
    \E k \in 1..9 : ~InBuffer(px, taps[k].pixelIndex + ch)

\* one returned channel: Math.max(0, Math.min(255, total))
Channel(px, taps, ch) ==
    IF ChannelIsNaN(px, taps, ch) THEN [nan |-> TRUE, v |-> 0]
    ELSE [nan |-> FALSE,
          v |-> Max(0, Min(255,
                  Normalize(Accumulate(px, taps, ch, 9), TotalWeight(taps, 9))))]

CalculateHexagonalPixel(px, ow, oh, hx, hy, hw, hh) ==
    LET taps == Taps(hx, hy, ow, oh, hw, hh)
    IN  [r |-> Channel(px, taps, 0),
         g |-> Channel(px, taps, 1),
         b |-> Channel(px, taps, 2)]

\* what the latest call computed, kept for inspection
SampleRecord(px, ow, oh, hx, hy, hw, hh) ==
    [hexX |-> hx, hexY |-> hy,
     centerX |-> CenterX(hx, hy, ow, hw),
     centerY |-> CenterY(hy, oh, hh),
     taps |-> Taps(hx, hy, ow, oh, hw, hh),
     color |-> CalculateHexagonalPixel(px, ow, oh, hx, hy, hw, hh)]

\* ------------------------------------------------------ buffer writer
\* variant: a stride of three bytes per target pixel
HexIndexStride3(hx, hy, hw) == (hy * hw + hx) * 3

\* variant: row and column exchanged
HexIndexTransposed(hx, hy, hw) == (hx * hw + hy) * 4

\* hexIndex = (hexY * hexWidth + hexX) * 4
HexIndex(hx, hy, hw) == (hy * hw + hx) * 4

\* a NaN stored into a Uint8ClampedArray becomes 0
ByteOf(c) == IF c.nan THEN 0 ELSE c.v

\* variant: the alpha of the source pixel at the sampling centre is copied
AlphaFromSource(px, ow, oh, hx, hy, hw, hh) ==
    px[PixelIndex(SampleX(CenterX(hx, hy, ow, hw), 0, ow),
                  SampleY(CenterY(hy, oh, hh), 0, oh), ow) + 3]

\* the alpha byte written next to the sampled colour
AlphaOf(px, ow, oh, hx, hy, hw, hh) == 255

\* the four stores of one loop body
WritePixel(buf, px, ow, oh, hx, hy, hw, hh) ==
    LET hexColor == CalculateHexagonalPixel(px, ow, oh, hx, hy, hw, hh)
        hexIndex == HexIndex(hx, hy, hw)
        b0 == StoreByte(buf, hexIndex, ByteOf(hexColor.r))
        b1 == StoreByte(b0, hexIndex + 1, ByteOf(hexColor.g))
        b2 == StoreByte(b1, hexIndex + 2, ByteOf(hexColor.b))
    IN  StoreByte(b2, hexIndex + 3, AlphaOf(px, ow, oh, hx, hy, hw, hh))

\* the indices of those four stores
WriteIndices(hx, hy, hw) ==
    LET hexIndex == HexIndex(hx, hy, hw)
    IN  {hexIndex, hexIndex + 1, hexIndex + 2, hexIndex + 3}

\* the store counts after one more store to each index of idxs
Logged(log, idxs) ==
    [i \in (DOMAIN log) \cup idxs |->
        (IF i \in DOMAIN log THEN log[i] ELSE 0)
            + (IF i \in idxs THEN 1 ELSE 0)]

\* hexY % Math.floor(hexHeight / 10) === 0 (a zero divisor gives NaN: false)
YieldsAfterRow(hy, hh) ==
    LET step == FloorDiv(hh, 10) IN step # 0 /\ hy % step = 0

\* ------------------------------------------------------------ the program
\* the zoom and pan fields of one canvas as the constructor sets them;
\* a zoom is the fraction <<numerator, denominator>>
InitialCanvasView ==
    [zoom |-> <<1, 1>>, panX |-> 0, panY |-> 0, isPanning |-> FALSE,
     lastPanPoint |-> Null]

InitialView == [type \in {"original", "hex"} |-> InitialCanvasView]

\* the constructor: no image, nothing in progress
Init ==
    /\ originalImage = Null
    /\ hexagonalImage = Null
    /\ pc = "idle"
    /\ originalWidth = 0
    /\ originalHeight = 0
    /\ pixels = <<>>
    /\ hexWidth = 0
    /\ hexHeight = 0
    /\ hexPixels = <<>>
    /\ hexX = 0
    /\ hexY = 0
    /\ todo = {}
    /\ writeLog = <<>>
    /\ lastSample = Null
    /\ alerted = FALSE
    /\ tasks = <<>>
    /\ view = InitialView
    /\ uiEvents = 0

\* processFile, img.onload: the decoded image is installed and
\* startProcessing runs up to its 100 ms delay
ImageLoaded(img) ==
    /\ pc = "idle"
    /\ originalImage' = img
    /\ pc' = "delay"
    /\ UNCHANGED <<hexagonalImage, originalWidth, originalHeight, pixels,
                   hexWidth, hexHeight, hexPixels, hexX, hexY, todo,
                   writeLog, lastSample, alerted>>
    /\ UNCHANGED uiVars

ProcessFile ==
    \E w \in 1..MaxW, h \in 1..MaxH, colA \in Colors, colB \in Colors,
       pat \in Patterns :
        ImageLoaded(SourceImage(w, h, colA, colB, pat))

\* convertToHexagonal up to the pixel loop: the source is read, the target
\* size computed and the target buffer created; an exception of
\* createImageData is caught by startProcessing
BeginConversion(loopPc, coords) ==
    /\ pc = "delay"
    /\ originalWidth' = originalImage.width
    /\ originalHeight' = originalImage.height
    /\ pixels' = originalImage.data
    /\ hexWidth' = HexWidthOf(originalImage.width)
    /\ hexHeight' = HexHeightOf(originalImage.height)
    /\ IF CreateImageDataThrows(hexWidth', hexHeight')
       THEN /\ alerted' = TRUE
            /\ pc' = "failed"
            /\ UNCHANGED <<hexPixels, todo>>
       ELSE /\ hexPixels' = CreateImageData(hexWidth', hexHeight')
            /\ todo' = coords
            /\ pc' = loopPc
            /\ UNCHANGED alerted
    /\ UNCHANGED <<originalImage, hexagonalImage, hexX, hexY, writeLog,
                   lastSample>>
    /\ UNCHANGED uiVars

ConvertBegin == BeginConversion("loop", {})

\* one body of the inner loop
ProcessPixel(hx, hy) ==
    /\ hexPixels' = WritePixel(hexPixels, pixels, originalWidth,
                               originalHeight, hx, hy, hexWidth, hexHeight)
    /\ writeLog' = Logged(writeLog, WriteIndices(hx, hy, hexWidth))
    /\ lastSample' = SampleRecord(pixels, originalWidth, originalHeight,
                                  hx, hy, hexWidth, hexHeight)

SamplePixel ==
    /\ pc = "loop"
    /\ hexY < hexHeight
    /\ hexX < hexWidth
    /\ ProcessPixel(hexX, hexY)
    /\ hexX' = hexX + 1
    /\ UNCHANGED <<originalImage, hexagonalImage, pc, originalWidth,
                   originalHeight, pixels, hexWidth, hexHeight, hexY, todo,
                   alerted>>
    /\ UNCHANGED uiVars

\* the inner loop has ended: the progress test, then the next row
RowEnd ==
    /\ pc = "loop"
    /\ hexY < hexHeight
    /\ hexX = hexWidth
    /\ pc' = IF YieldsAfterRow(hexY, hexHeight) THEN "yield" ELSE "loop"
    /\ hexX' = 0
    /\ hexY' = hexY + 1
    /\ UNCHANGED <<originalImage, hexagonalImage, originalWidth,
                   originalHeight, pixels, hexWidth, hexHeight, hexPixels,
                   todo, writeLog, lastSample, alerted>>
    /\ UNCHANGED uiVars

\* the 1 ms timer of the progress yield fires
Resume ==
    /\ pc = "yield"
    /\ pc' = "loop"
    /\ UNCHANGED <<originalImage, hexagonalImage, originalWidth,
                   originalHeight, pixels, hexWidth, hexHeight, hexPixels,
                   hexX, hexY, todo, writeLog, lastSample, alerted>>
    /\ UNCHANGED uiVars

\* the outer loop has ended: putImageData and toDataURL
Encode ==
    /\ pc = "loop"
    /\ hexY = hexHeight
    /\ pc' = "encode"
    /\ UNCHANGED <<originalImage, hexagonalImage, originalWidth,
                   originalHeight, pixels, hexWidth, hexHeight, hexPixels,
                   hexX, hexY, todo, writeLog, lastSample, alerted>>
    /\ UNCHANGED uiVars

\* img.onload of the encoded result, then showResults
HexImageLoaded ==
    /\ pc = "encode"
    /\ hexagonalImage' =
          [width |-> hexWidth, height |-> hexHeight, data |-> hexPixels]
    /\ pc' = "results"
    /\ UNCHANGED <<originalImage, originalWidth, originalHeight, pixels,
                   hexWidth, hexHeight, hexPixels, hexX, hexY, todo,
                   writeLog, lastSample, alerted>>
    /\ UNCHANGED uiVars

Next ==
    \/ ProcessFile
    \/ ConvertBegin
    \/ SamplePixel
    \/ RowEnd
    \/ Resume
    \/ Encode
    \/ HexImageLoaded

Spec == Init /\ [][Next]_vars

\* ------------------------------------------- the loop in any pixel order
AllCoords(hw, hh) == (0..(hw - 1)) \X (0..(hh - 1))

ProcessFileAny ==
    \E w \in 1..MaxAnyW, h \in 1..MaxAnyH, colA \in Colors, colB \in Colors,
       pat \in Patterns :
        ImageLoaded(SourceImage(w, h, colA, colB, pat))

ConvertBeginAny ==
    BeginConversion("anyloop",
                    AllCoords(HexWidthOf(originalImage.width),
                              HexHeightOf(originalImage.height)))

\* some worker processes some pixel that is still to do
SampleAny ==
    /\ pc = "anyloop"
    /\ \E c \in todo :
          /\ ProcessPixel(c[1], c[2])
          /\ todo' = todo \ {c}
    /\ UNCHANGED <<originalImage, hexagonalImage, pc, originalWidth,
                   originalHeight, pixels, hexWidth, hexHeight, hexX, hexY,
                   alerted>>
    /\ UNCHANGED uiVars

EncodeAny ==
    /\ pc = "anyloop"
    /\ todo = {}
    /\ pc' = "encode"
    /\ UNCHANGED <<originalImage, hexagonalImage, originalWidth,
                   originalHeight, pixels, hexWidth, hexHeight, hexPixels,
                   hexX, hexY, todo, writeLog, lastSample, alerted>>
    /\ UNCHANGED uiVars

NextAny ==
    \/ ProcessFileAny
    \/ ConvertBeginAny
    \/ SampleAny
    \/ EncodeAny
    \/ HexImageLoaded

SpecAny == Init /\ [][NextAny]_vars

\* the target buffer the row-major loop of convertToHexagonal produces:
\* the first n loop bodies, n = hexY * hexWidth + hexX
RECURSIVE RowMajorLoop(_, _, _, _, _, _)
RowMajorLoop(px, ow, oh, hw, hh, n) ==
    IF n = 0 THEN CreateImageData(hw, hh)
    ELSE WritePixel(RowMajorLoop(px, ow, oh, hw, hh, n - 1), px, ow, oh,
                    (n - 1) % hw, (n - 1) \div hw, hw, hh)

\* =================================================================== claims
Started == pc \notin {"idle", "delay"}
LoopDone == pc \in {"encode", "results"}

\* the colour of source pixel (x, y), channel ch
SourceAt(x, y, ch) == pixels[(y * originalWidth + x) * 4 + ch]

\* every source pixel has the RGB of source pixel (0, 0)
UniformSource ==
    \A x \in 0..(originalWidth - 1), y \in 0..(originalHeight - 1),
       ch \in 0..2 : SourceAt(x, y, ch) = SourceAt(0, 0, ch)

\* C1: uniform-colour invariance.  When every pixel of a source of size
\* W, H >= 2 has the same RGB colour C, every output pixel written by
\* convertToHexagonal, and the colour returned by the latest
\* calculateHexagonalPixel, has RGB exactly C, border pixels included.
C1_UniformColor ==
    (Started /\ originalWidth >= 2 /\ originalHeight >= 2 /\ UniformSource)
    => /\ \A i \in DOMAIN hexPixels :
            (i \in DOMAIN writeLog /\ i % 4 # 3)
                => hexPixels[i] = SourceAt(0, 0, i % 4)
       /\ lastSample # Null =>
            /\ lastSample.color.r = [nan |-> FALSE, v |-> SourceAt(0, 0, 0)]
            /\ lastSample.color.g = [nan |-> FALSE, v |-> SourceAt(0, 0, 1)]
            /\ lastSample.color.b = [nan |-> FALSE, v |-> SourceAt(0, 0, 2)]

\* a finished conversion of a uniform 5 x 12 source of colour (17,128,254),
\* the last sample taken at the bottom-right border
C1_Witness ==
    /\ pc = "results"
    /\ originalWidth = 5 /\ originalHeight = 12
    /\ UniformSource
    /\ SourceAt(0, 0, 0) = 17 /\ SourceAt(0, 0, 1) = 128
    /\ SourceAt(0, 0, 2) = 254
    /\ Cardinality(DOMAIN writeLog) = 4 * 4 * 10
    /\ \E k \in 1..9 :
          lastSample.centerX + lastSample.taps[k].dx > originalWidth - 1

\* n = Math.floor(a / b), a >= 0 and b > 0, without dividing
IsFloorOf(n, a, b) == b * n <= a /\ a < b * (n + 1)

\* n = Math.round(a / b), a >= 0 and b > 0, without dividing
IsRoundOf(n, a, b) == 2 * b * n - b <= 2 * a /\ 2 * a < 2 * b * n + b

\* C2: for every source width W >= 1 and height H >= 1 the target size
\* computed by convertToHexagonal is Wh = floor(17 W / 20) and
\* Hh = floor(9 H / 10).
C2_Dimensions ==
    Started =>
        /\ originalWidth = originalImage.width
        /\ originalHeight = originalImage.height
        /\ originalWidth >= 1 /\ originalHeight >= 1
        /\ IsFloorOf(hexWidth, 17 * originalWidth, 20)
        /\ IsFloorOf(hexHeight, 9 * originalHeight, 10)

\* a 3 x 12 source: 2.55 is floored to 2 and 10.8 to 10
C2_Witness ==
    /\ Started
    /\ originalWidth = 3 /\ hexWidth = 2
    /\ originalHeight = 12 /\ hexHeight = 10

\* C3: clamp-to-edge reads.  Each of the nine taps of
\* calculateHexagonalPixel has 0 <= sampleX <= W-1 and 0 <= sampleY <= H-1,
\* every source index read lies in [0, W*H*4), and a tap whose unclamped
\* coordinate is outside the source reads the nearest edge pixel.
C3_ClampToEdge ==
    lastSample # Null =>
        /\ originalWidth >= 2 /\ originalHeight >= 2
        /\ lastSample.hexX \in 0..(hexWidth - 1)
        /\ lastSample.hexY \in 0..(hexHeight - 1)
        /\ \A k \in 1..9 :
            LET t == lastSample.taps[k]
                ux == lastSample.centerX + t.dx
                uy == lastSample.centerY + t.dy
            IN  /\ t.sampleX \in 0..(originalWidth - 1)
                /\ t.sampleY \in 0..(originalHeight - 1)
                /\ t.sampleX = (IF ux < 0 THEN 0
                                ELSE IF ux > originalWidth - 1
                                     THEN originalWidth - 1 ELSE ux)
                /\ t.sampleY = (IF uy < 0 THEN 0
                                ELSE IF uy > originalHeight - 1
                                     THEN originalHeight - 1 ELSE uy)
                /\ t.pixelIndex = (t.sampleY * originalWidth + t.sampleX) * 4
                /\ \A ch \in 0..2 :
                      /\ 0 <= t.pixelIndex + ch
                      /\ t.pixelIndex + ch < originalWidth * originalHeight * 4
                      /\ InBuffer(pixels, t.pixelIndex + ch)

\* the sample of output pixel (0, 0): the taps left of and above the source
\* are read from column 0 and row 0
C3_Witness ==
    /\ lastSample # Null
    /\ lastSample.hexX = 0 /\ lastSample.hexY = 0
    /\ lastSample.centerX = 0 /\ lastSample.centerY = 0
    /\ lastSample.taps[1].dx = -1 /\ lastSample.taps[1].dy = -1
    /\ lastSample.taps[1].sampleX = 0 /\ lastSample.taps[1].sampleY = 0

\* C4: order independence.  Whatever the order in which the Wh*Hh output
\* pixels are processed, the final target buffer is byte-identical to the
\* one the row-major loop of convertToHexagonal produces from the same
\* source (so any two runs on one source agree).
C4_OrderIndependent ==
    LoopDone =>
        /\ todo = {}
        /\ hexPixels = RowMajorLoop(pixels, originalWidth, originalHeight,
                                    hexWidth, hexHeight, hexWidth * hexHeight)
        /\ pc = "results" => hexagonalImage.data = hexPixels

\* a completed 2 x 2 target of a two-coloured source whose first pixel
\* (0, 0) was processed last
C4_Witness ==
    /\ pc = "encode"
    /\ hexWidth = 2 /\ hexHeight = 2
    /\ ~UniformSource
    /\ lastSample.hexX = 0 /\ lastSample.hexY = 0

\* C5: once the pixel loop has completed, the alpha byte of every output
\* pixel, at index (hexY*Wh + hexX)*4 + 3, is 255 whatever the source alpha.
C5_AlphaOpaque ==
    LoopDone =>
        \A hx \in 0..(hexWidth - 1), hy \in 0..(hexHeight - 1) :
            /\ InBuffer(hexPixels, (hy * hexWidth + hx) * 4 + 3)
            /\ hexPixels[(hy * hexWidth + hx) * 4 + 3] = 255

\* a completed conversion of a source with alpha 0 and 100
C5_Witness ==
    /\ pc = "results"
    /\ hexWidth = 4 /\ hexHeight = 10
    /\ \E x \in 0..(originalWidth - 1), y \in 0..(originalHeight - 1) :
          SourceAt(x, y, 3) = 0
    /\ \E x \in 0..(originalWidth - 1), y \in 0..(originalHeight - 1) :
          SourceAt(x, y, 3) = 100

\* C6: buffer writes.  Every write index lies in [0, Wh*Hh*4); no byte is
\* stored twice, so the four-byte ranges of distinct output pixels are
\* disjoint; the pixels are written in row-major position, pixel
\* (hexX, hexY) at (hexY*Wh + hexX)*4; and on completion every byte of the
\* Wh*Hh*4-byte target buffer has been written.
C6_BufferWrites ==
    /\ \A i \in DOMAIN writeLog :
          /\ 0 <= i /\ i < hexWidth * hexHeight * 4
          /\ InBuffer(hexPixels, i)
          /\ writeLog[i] = 1
    /\ pc \in {"loop", "yield"} =>
          DOMAIN writeLog = 0..((hexY * hexWidth + hexX) * 4 - 1)
    /\ lastSample # Null =>
          \A j \in 0..3 :
             (lastSample.hexY * hexWidth + lastSample.hexX) * 4 + j
                \in DOMAIN writeLog
    /\ LoopDone =>
          /\ DOMAIN hexPixels = 0..(hexWidth * hexHeight * 4 - 1)
          /\ DOMAIN writeLog = DOMAIN hexPixels

\* a completed 4 x 10 target: 160 bytes, each written once
C6_Witness ==
    /\ pc = "encode"
    /\ hexWidth = 4 /\ hexHeight = 10
    /\ Cardinality(DOMAIN writeLog) = 160

\* the clamped source coordinate of the tap (dx, dy) of the latest sample
ClampedTo(v, hi) == IF v < 0 THEN 0 ELSE IF v > hi THEN hi ELSE v

TapValue(dx, dy, ch) ==
    SourceAt(ClampedTo(lastSample.centerX + dx, originalWidth - 1),
             ClampedTo(lastSample.centerY + dy, originalHeight - 1), ch)

\* sixteen times the weighted sum: centre 8/16, each neighbour 1/16
WeightedSum16(ch) ==
    8 * TapValue(0, 0, ch)
    + TapValue(-1, -1, ch) + TapValue(0, -1, ch) + TapValue(1, -1, ch)
    + TapValue(-1, 0, ch) + TapValue(1, 0, ch)
    + TapValue(-1, 1, ch) + TapValue(0, 1, ch) + TapValue(1, 1, ch)

\* C7: weighted sampler.  Each of R, G, B returned by
\* calculateHexagonalPixel is round((8*centre + the 8 neighbour taps)/16)
\* over the clamped 3x3 taps; the total weight is exactly 1 at borders as
\* in the interior; rounding happens once, after the accumulation.
C7_WeightedSampler ==
    lastSample # Null =>
        /\ TotalWeight(lastSample.taps, 9) = 16
        /\ lastSample.taps[5].weight = 8
        /\ \A k \in (1..9) \ {5} : lastSample.taps[k].weight = 1
        /\ ~lastSample.color.r.nan
        /\ ~lastSample.color.g.nan
        /\ ~lastSample.color.b.nan
        /\ IsRoundOf(lastSample.color.r.v, WeightedSum16(0), 16)
        /\ IsRoundOf(lastSample.color.g.v, WeightedSum16(1), 16)
        /\ IsRoundOf(lastSample.color.b.v, WeightedSum16(2), 16)

\* a border sample (a tap beyond the right edge is clamped) whose taps
\* differ and whose green sum is an odd number of halves, so that the one
\* final rounding decides the result
C7_Witness ==
    /\ lastSample # Null
    /\ \E k \in 1..9 :
          lastSample.centerX + lastSample.taps[k].dx > originalWidth - 1
    /\ WeightedSum16(1) % 16 = 8
    /\ WeightedSum16(1) # 16 * TapValue(0, 0, 1)
    /\ IsRoundOf(lastSample.color.g.v, WeightedSum16(1), 16)

\* C8: row stagger.  centerX = round(hexX * W/Wh) on even rows and
\* round((hexX + 0.5) * W/Wh) on odd rows; centerY = round(hexY * H/Hh)
\* whatever the parity; for one hexX the odd-row centre is never left of
\* the even-row centre and differs from it by 0.5 * W/Wh up to rounding.
C8_RowStagger ==
    lastSample # Null =>
        LET hx == lastSample.hexX
            hy == lastSample.hexY
            cx == lastSample.centerX
            \* the centre of the same hexX on a row of the other parity
            other == CenterX(hx, hy + 1, originalWidth, hexWidth)
            evenX == IF hy % 2 = 0 THEN cx ELSE other
            oddX == IF hy % 2 = 0 THEN other ELSE cx
        IN  /\ hy % 2 = 0 => IsRoundOf(cx, hx * originalWidth, hexWidth)
            /\ hy % 2 = 1 =>
                  IsRoundOf(cx, (2 * hx + 1) * originalWidth, 2 * hexWidth)
            /\ IsRoundOf(lastSample.centerY, hy * originalHeight, hexHeight)
            /\ IsRoundOf(evenX, hx * originalWidth, hexWidth)
            /\ IsRoundOf(oddX, (2 * hx + 1) * originalWidth, 2 * hexWidth)
            /\ oddX >= evenX
            \* | (oddX - evenX) - W/(2 Wh) | < 1
            /\ 2 * hexWidth * (oddX - evenX) - originalWidth < 2 * hexWidth
            /\ originalWidth - 2 * hexWidth * (oddX - evenX) < 2 * hexWidth

\* an odd-row sample whose centre lies one column right of the even-row
\* centre of the same hexX (W = 3, Wh = 2: round(0.75) = 1 against 0)
C8_Witness ==
    /\ lastSample # Null
    /\ lastSample.hexY % 2 = 1
    /\ lastSample.hexX = 0
    /\ originalWidth = 3 /\ hexWidth = 2
    /\ lastSample.centerX = 1
    /\ CenterX(0, 0, originalWidth, hexWidth) = 0

\* C9: each of R, G, B produced by calculateHexagonalPixel and stored in
\* the output buffer is an integer in [0, 255].
C9_ChannelRange ==
    /\ lastSample # Null =>
          \A c \in {lastSample.color.r, lastSample.color.g,
                    lastSample.color.b} :
              ~c.nan /\ c.v \in 0..255
    /\ \A i \in DOMAIN hexPixels : hexPixels[i] \in 0..255
    /\ pc = "results" =>
          \A i \in DOMAIN hexagonalImage.data :
              hexagonalImage.data[i] \in 0..255

\* a sample that returns both extremes: red 255 and green 0
C9_Witness ==
    /\ lastSample # Null
    /\ lastSample.color.r.v = 255
    /\ lastSample.color.g.v = 0
    /\ hexPixels[HexIndex(lastSample.hexX, lastSample.hexY, hexWidth)] = 255

Degenerate == originalWidth = 1 \/ originalHeight = 1

\* C10 as stated: for W = 1 or H = 1 the formula yields Wh = 0 or Hh = 0,
\* no sample and no write is performed, a target buffer of length 0 exists
\* and no error is signalled.
C10_AsStated ==
    (Started /\ Degenerate) =>
        /\ hexWidth = 0 \/ hexHeight = 0
        /\ lastSample = Null
        /\ DOMAIN writeLog = {}
        /\ pc # "failed"
        /\ ~alerted

\* C10, amended: for W = 1 or H = 1 the formula yields Wh = 0 or Hh = 0 and
\* no sample and no write is performed (no division by zero is evaluated);
\* the code has no guard of its own, but createImageData raises for the
\* zero dimension, so no target buffer exists, startProcessing catches the
\* exception and alerts, and hexagonalImage stays unset.
C10_DegenerateFails ==
    (Started /\ Degenerate) =>
        /\ hexWidth = 0 \/ hexHeight = 0
        /\ lastSample = Null
        /\ DOMAIN writeLog = {}
        /\ DOMAIN hexPixels = {}
        /\ pc = "failed"
        /\ alerted
        /\ hexagonalImage = Null

\* a one-pixel-wide source of height 12: Wh = 0, Hh = 10, conversion failed
C10_Witness ==
    /\ pc = "failed"
    /\ originalWidth = 1 /\ originalHeight = 12
    /\ hexWidth = 0 /\ hexHeight = 10
    /\ alerted

\* ============================================= the event-driven application
\* Every handler runs to its next await: the steps of the conversions in
\* flight interleave with each other and with the UI events.
MaxLoads == 2
MaxUIEvents == 1
MaxUIW == 2
MaxUIH == 12

\* the files offered to the application: MaxUIW columns of MaxUIH rows,
\* horizontally striped in two colour pairs
UIImages ==
    { SourceImage(MaxUIW, MaxUIH, c[1], c[2], <<0, 1>>) :
        c \in { <<<<255, 0, 0, 255>>, <<0, 4, 2, 0>>>>,
                <<<<17, 128, 254, 100>>, <<255, 0, 0, 255>>>> } }

\* the target buffer an uninterrupted convertToHexagonal fills from the
\* source img: byte j belongs to output pixel j \div 4 in row-major order
UninterruptedBuffer(img) ==
    LET hw == HexWidthOf(img.width)
        hh == HexHeightOf(img.height)
    IN  [j \in 0..(hw * hh * 4 - 1) |->
            LET hx == (j \div 4) % hw
                hy == (j \div 4) \div hw
            IN  IF j % 4 = 3
                THEN AlphaOf(img.data, img.width, img.height, hx, hy, hw, hh)
                ELSE ByteOf(Channel(img.data,
                                    Taps(hx, hy, img.width, img.height,
                                         hw, hh),
                                    j % 4))]

\* the image convertToHexagonal produces from the source img when nothing
\* interrupts it
ConversionOf(img) ==
    [width |-> HexWidthOf(img.width), height |-> HexHeightOf(img.height),
     data |-> UninterruptedBuffer(img)]

\* a startProcessing call waiting for its 100 ms delay; captured and
\* expected record, when the conversion begins, its source image and the
\* buffer an uninterrupted run produces from it
NewTask ==
    [pc |-> "delay", captured |-> Null, expected |-> <<>>,
     originalWidth |-> 0,
     originalHeight |-> 0, pixels |-> <<>>, hexWidth |-> 0, hexHeight |-> 0,
     hexPixels |-> <<>>, hexY |-> 0, during |-> {}]

\* variant: the loop reads the image currently installed instead of the
\* buffer extracted when the conversion began
LoopSourceShared(t) ==
    IF originalImage = Null THEN t.pixels ELSE originalImage.data

\* the source buffer the pixel loop reads: the local const pixels
LoopSource(t) == t.pixels

\* the first n bodies of the inner loop of row hy
RECURSIVE RowWritten(_, _, _, _)
RowWritten(t, buf, hy, n) ==
    IF n = 0 THEN buf
    ELSE WritePixel(RowWritten(t, buf, hy, n - 1), LoopSource(t),
                    t.originalWidth, t.originalHeight, n - 1, hy,
                    t.hexWidth, t.hexHeight)

\* the outer loop from row t.hexY up to its next await: the progress yield
\* after a row, or the load of the encoded result after the last row
RECURSIVE RunLoop(_)
RunLoop(t) ==
    IF t.hexY >= t.hexHeight THEN [t EXCEPT !.pc = "encode"]
    ELSE LET t1 == [t EXCEPT
                      !.hexPixels = RowWritten(t, t.hexPixels, t.hexY,
                                               t.hexWidth),
                      !.hexY = t.hexY + 1]
         IN  IF YieldsAfterRow(t.hexY, t.hexHeight)
             THEN [t1 EXCEPT !.pc = "yield"]
             ELSE RunLoop(t1)

\* convertToHexagonal from its first line to its first await; "failed"
\* when it throws (no image installed, or createImageData throws)
ConversionBegun(t) ==
    IF originalImage = Null THEN [t EXCEPT !.pc = "failed"]
    ELSE LET hw == HexWidthOf(originalImage.width)
             hh == HexHeightOf(originalImage.height)
             t0 == [t EXCEPT !.captured = originalImage,
                             !.originalWidth = originalImage.width,
                             !.originalHeight = originalImage.height,
                             !.pixels = originalImage.data,
                             !.hexWidth = hw,
                             !.hexHeight = hh]
         IN  IF CreateImageDataThrows(hw, hh)
             THEN [t0 EXCEPT !.pc = "failed"]
             ELSE RunLoop([t0 EXCEPT
                             !.hexPixels = CreateImageData(hw, hh),
                             !.expected = ConversionOf(originalImage).data])

\* the tasks after an event of the given kind was handled: the suspended
\* conversions remember it
Noted(ts, kind) ==
    [i \in DOMAIN ts |->
        IF ts[i].pc = "yield"
        THEN [ts[i] EXCEPT !.during = @ \cup {kind}] ELSE ts[i]]

\* processFile, img.onload: the image is installed and startProcessing
\* runs up to its delay
FileLoaded ==
    /\ Len(tasks) < MaxLoads
    /\ \E img \in UIImages :
          /\ originalImage' = img
          /\ tasks' = Append(Noted(tasks, "load"), NewTask)
    /\ UNCHANGED <<hexagonalImage, alerted, view, uiEvents>>
    /\ UNCHANGED runVars

\* the delay of a startProcessing call is over: convertToHexagonal runs to
\* its first await, or throws into the catch block
TaskStart ==
    \E i \in DOMAIN tasks :
        /\ tasks[i].pc = "delay"
        /\ tasks' = [tasks EXCEPT ![i] = ConversionBegun(tasks[i])]
        /\ alerted' = (alerted \/ ConversionBegun(tasks[i]).pc = "failed")
        /\ UNCHANGED <<originalImage, hexagonalImage, view, uiEvents>>
        /\ UNCHANGED runVars

\* the 1 ms timer of a suspended conversion fires
TaskResume ==
    \E i \in DOMAIN tasks :
        /\ tasks[i].pc = "yield"
        /\ tasks' = [tasks EXCEPT ![i] = RunLoop(tasks[i])]
        /\ UNCHANGED <<originalImage, hexagonalImage, alerted, view, uiEvents>>
        /\ UNCHANGED runVars

\* img.onload of an encoded result: it is installed, then showResults
TaskImageLoaded ==
    \E i \in DOMAIN tasks :
        /\ tasks[i].pc = "encode"
        /\ hexagonalImage' = [width |-> tasks[i].hexWidth,
                              height |-> tasks[i].hexHeight,
                              data |-> tasks[i].hexPixels]
        /\ tasks' = [tasks EXCEPT ![i].pc = "results"]
        /\ UNCHANGED <<originalImage, alerted, view, uiEvents>>
        /\ UNCHANGED runVars

RECURSIVE GCD(_, _)
GCD(a, b) == IF b = 0 THEN a ELSE GCD(b, a % b)

\* the factors of the zoom buttons (1.2, 0.8) and of the wheel (0.9, 1.1)
ZoomFactors == { <<6, 5>>, <<4, 5>>, <<9, 10>>, <<11, 10>> }

\* Math.max(0.1, Math.min(5, zoom * factor)), in lowest terms
ZoomBy(z, f) ==
    LET n == z[1] * f[1]
        d == z[2] * f[2]
        g == GCD(n, d)
    IN  IF 10 * n < d THEN <<1, 10>>
        ELSE IF n > 5 * d THEN <<5, 1>>
        ELSE <<n \div g, d \div g>>

\* the pointer positions of the mouse and touch events
Points == { [x |-> 0, y |-> 0], [x |-> 3, y |-> 1] }

CanvasTypes == {"original", "hex"}

\* a handled UI event that leaves the images alone
ViewEvent(kind, newView) ==
    /\ uiEvents < MaxUIEvents
    /\ uiEvents' = uiEvents + 1
    /\ view' = newView
    /\ tasks' = Noted(tasks, kind)
    /\ UNCHANGED <<originalImage, hexagonalImage, alerted>>
    /\ UNCHANGED runVars

\* reset: both images are cleared and zoom and pan of both canvases reset
Reset ==
    /\ uiEvents < MaxUIEvents
    /\ uiEvents' = uiEvents + 1
    /\ originalImage' = Null
    /\ hexagonalImage' = Null
    /\ view' = [type \in CanvasTypes |->
                  [view[type] EXCEPT !.zoom = <<1, 1>>, !.panX = 0,
                                     !.panY = 0]]
    /\ tasks' = Noted(tasks, "reset")
    /\ UNCHANGED alerted
    /\ UNCHANGED runVars

\* zoomOriginal / zoomHex, from a button or from handleWheel
Zoom ==
    \E type \in CanvasTypes, f \in ZoomFactors :
        ViewEvent("zoom",
                  [view EXCEPT ![type].zoom = ZoomBy(view[type].zoom, f)])

\* startPan, from mousedown or a one-finger touchstart
StartPan ==
    \E type \in CanvasTypes, p \in Points :
        ViewEvent("pan",
                  [view EXCEPT ![type].isPanning = TRUE,
                               ![type].lastPanPoint = p])

\* pan, from mousemove or a one-finger touchmove: nothing unless panning
Pan ==
    \E type \in CanvasTypes, p \in Points :
        ViewEvent("pan",
                  IF ~view[type].isPanning \/ view[type].lastPanPoint = Null
                  THEN view
                  ELSE [view EXCEPT
                          ![type].panX = @ + (p.x - view[type].lastPanPoint.x),
                          ![type].panY = @ + (p.y - view[type].lastPanPoint.y),
                          ![type].lastPanPoint = p])

\* endPan, from mouseup, mouseleave or touchend
EndPan ==
    \E type \in CanvasTypes :
        ViewEvent("pan",
                  [view EXCEPT ![type].isPanning = FALSE,
                               ![type].lastPanPoint = Null])

NextUI ==
    \/ FileLoaded
    \/ TaskStart
    \/ TaskResume
    \/ TaskImageLoaded
    \/ Reset
    \/ Zoom
    \/ StartPan
    \/ Pan
    \/ EndPan

SpecUI == Init /\ [][NextUI]_vars

\* C11: suspension points do not alter the output.  Whatever UI events
\* (reset, pan, zoom, wheel, another file load starting a second
\* conversion) are handled while a conversion is suspended, its target
\* buffer on completion is byte-identical to the buffer of an uninterrupted
\* run on the source captured when the conversion started; while it is
\* suspended the buffer holds exactly the rows done so far.
C11_SuspensionKeepsOutput ==
    \A i \in DOMAIN tasks :
        LET t == tasks[i] IN
        /\ t.pc \in {"yield", "encode", "results"} =>
              /\ t.captured # Null
              /\ t.hexWidth = HexWidthOf(t.captured.width)
              /\ t.hexHeight = HexHeightOf(t.captured.height)
              /\ DOMAIN t.hexPixels = DOMAIN t.expected
              /\ \A j \in DOMAIN t.hexPixels :
                    t.hexPixels[j] =
                        (IF j < t.hexY * t.hexWidth * 4 THEN t.expected[j]
                         ELSE 0)
        /\ t.pc \in {"encode", "results"} =>
              /\ t.hexY = t.hexHeight
              /\ t.hexPixels = t.expected

\* a conversion that completed after a reset and another file load were
\* handled while it was suspended, the installed image no longer its source
C11_Witness ==
    \E i \in DOMAIN tasks :
        /\ tasks[i].pc = "results"
        /\ {"reset", "load"} \subseteq tasks[i].during
        /\ tasks[i].hexWidth > 0
        /\ originalImage # Null
        /\ originalImage # tasks[i].captured

\* C12: result/source consistency.  In every reachable state, if
\* hexagonalImage is non-null then originalImage is non-null and
\* hexagonalImage is the conversion of the current originalImage: no
\* reset or second load leaves a stale result installed.
C12_ResultMatchesSource ==
    hexagonalImage # Null =>
        /\ originalImage # Null
        /\ hexagonalImage = ConversionOf(originalImage)

====
